---- MODULE Spec2Model ----
(***************************************************************************)
(* A model of the TradingView -> Binance webhook service (src/app.py).     *)
(*                                                                         *)
(* One webhook request is a small sequential process: validation of the    *)
(* payload, the pair-metadata query, the balance query with order sizing,  *)
(* and the order submission.  Every exchange round trip is one atomic      *)
(* step, so requests served by different workers interleave between them.  *)
(*                                                                         *)
(* Numbers.  Python floats are modelled as fixed-point decimals: a value   *)
(* is an integer count of units of 10^-scale.  Quote amounts are in cents  *)
(* (scale 2); base quantities use the scale of the market they belong to.  *)
(***************************************************************************)
EXTENDS Integers, Sequences, FiniteSets, TLC

VARIABLES
    WEBHOOK_TOKEN,  \* configuration, read once at start-up
    market,         \* exchange: what get_symbol_info answers for SYMBOL
    quoteFree,      \* exchange: free QUOTE_ASSET balance of the account (cents)
    baseFree,       \* exchange: free BASE_ASSET balance (units of the market scale)
    pc,             \* per request: position in the handler
    body,           \* per request: the request body
    text,           \* per request: the normalised action text
    filters,        \* per request: step_size, min_qty, min_notional
    free,           \* per request: usdc_free / raw_qty as read
    amount,         \* per request: quote_qty / qty as computed
    calls,          \* per request: exchange calls made so far, in order
    orders,         \* per request: orders handed to create_order
    resp            \* per request: the HTTP response

vars == <<WEBHOOK_TOKEN, market, quoteFree, baseFree, pc, body, text, filters,
          free, amount, calls, orders, resp>>

(***************************************************************************)
(* Bounds of the model.                                                    *)
(***************************************************************************)
\* Quote balances reach up to MaxQuoteCents (whole cents).
MaxQuoteCents == 512

\* Base balances are 0..MaxBaseGrains multiples of the market's grain.
MaxBaseGrains == 3

Reqs == {1, 2}

(***************************************************************************)
(* JSON values of the payload and Python's view of them.                   *)
(***************************************************************************)
JNull == [t |-> "null", s |-> <<>>, n |-> 0]

JStr(s) == [t |-> "str", s |-> s, n |-> 0]

JNum(n) == [t |-> "num", s |-> <<>>, n |-> n]

\* Python truthiness, as used by `if WEBHOOK_TOKEN` and by `x or y`.
Truthy(v) ==
    CASE v.t = "null" -> FALSE
      [] v.t = "str"  -> v.s # <<>>
      [] v.t = "num"  -> v.n # 0

\* Python's `a or b`.
PyOr(a, b) == IF Truthy(a) THEN a ELSE b

Whitespace == {" ", "\t", "\n"}

\* str.lower() on one character.
LowerChar(c) ==
    CASE c = "B" -> "b" [] c = "U" -> "u" [] c = "Y" -> "y"
      [] c = "S" -> "s" [] c = "E" -> "e" [] c = "L" -> "l"
      [] c = "H" -> "h" [] c = "O" -> "o" [] c = "D" -> "d"
      [] OTHER -> c

\* str.lower()
Lower(s) == [i \in 1..Len(s) |-> LowerChar(s[i])]

RECURSIVE LStrip(_)
LStrip(s) == IF s # <<>> /\ Head(s) \in Whitespace THEN LStrip(Tail(s)) ELSE s

RECURSIVE RStrip(_)
RStrip(s) ==
    IF s # <<>> /\ s[Len(s)] \in Whitespace
    THEN RStrip(SubSeq(s, 1, Len(s) - 1))
    ELSE s

\* str.strip()
Strip(s) == LStrip(RStrip(s))

BUY == <<"b", "u", "y">>

SELL == <<"s", "e", "l", "l">>

(***************************************************************************)
(* HTTP responses and exceptions.                                          *)
(***************************************************************************)
Pending == [status |-> 0, detail |-> <<>>]

HTTPException(status, detail) ==
    [type |-> "HTTPException", status |-> status, detail |-> detail]

\* An exception of any other class, carrying its message.
Exc(type, msg) == [type |-> type, status |-> 0, detail |-> <<msg>>]

\* FastAPI answers an HTTPException with its own status and detail.
HttpResponse(e) == [status |-> e.status, detail |-> e.detail]

\* An exception that leaves the handler uncaught is answered by the server
\* with a bare 500.
Unhandled(e) == [status |-> 500, detail |-> <<"Internal Server Error">>]

\* The rejections the handler raises itself, each an HTTPException.
InvalidJson == HTTPException(400, <<"Invalid JSON">>)

InvalidToken == HTTPException(401, <<"Ungueltiger Token">>)

UnrecognizedAction ==
    HTTPException(400, <<"Erwarte 'buy' oder 'sell' in der Nachricht">>)

SymbolNotFound == HTTPException(400, <<"Symbol nicht gefunden: SYMBOL">>)

BelowMinNotional ==
    HTTPException(400, <<"Guthaben zu gering. quoteOrderQty < minNotional">>)

BelowFloor == HTTPException(400, <<"Guthaben zu gering. USDC">>)

NoLotSize == HTTPException(400, <<"Konnte LOT_SIZE Filter nicht bestimmen.">>)

BelowMinQty == HTTPException(400, <<"Zu wenig BASE_ASSET. Menge < minQty">>)

(***************************************************************************)
(* Quantization utilities.                                                 *)
(***************************************************************************)
Pow10(n) == 10 ^ n

\* truncate(number, decimals): floor(number * 10^decimals) / 10^decimals, for a
\* number given in units of 10^-scale; the result is in units of 10^-decimals.
Truncate(number, scale, decimals) ==
    (number * Pow10(decimals)) \div Pow10(scale)

\* round_step_size(quantity, step_size), for step_size # 0.
RoundStepSize(quantity, step_size) == (quantity \div step_size) * step_size

\* Round m / unit to the nearest integer, ties to even.
RoundHalfEven(m, unit) ==
    LET q == m \div unit
        rem == m % unit
    IN  IF 2 * rem > unit \/ (2 * rem = unit /\ q % 2 = 1) THEN q + 1 ELSE q

\* The ten fractional digits of f"{step_size:.10f}".
FractionDigits(step_size, scale) ==
    LET m10 == IF scale > 10
               THEN RoundHalfEven(step_size, Pow10(scale - 10))
               ELSE step_size
        s10 == IF scale > 10 THEN 10 ELSE scale
    IN  [i \in 1..10 |-> IF i <= s10 THEN (m10 \div Pow10(s10 - i)) % 10 ELSE 0]

\* .rstrip("0") on the fractional digits (the "." stops the stripping).
RStripZeros(d) ==
    LET last == CHOOSE k \in 0..Len(d) :
                    /\ k = 0 \/ d[k] # 0
                    /\ \A i \in (k + 1)..Len(d) : d[i] = 0
    IN  SubSeq(d, 1, last)

\* decimals = len(step_str.split(".")[1])
Decimals(step_size, scale) == Len(RStripZeros(FractionDigits(step_size, scale)))

\* round(qty, decimals) for qty in units of 10^-scale.
Round(qty, scale, decimals) ==
    IF decimals >= scale
    THEN qty
    ELSE RoundHalfEven(qty, Pow10(scale - decimals)) * Pow10(scale - decimals)

(***************************************************************************)
(* Exchange filter resolver.                                               *)
(***************************************************************************)
NoFilters == [step_size |-> <<>>, min_qty |-> <<>>, min_notional |-> <<>>]

\* A loop body that knows the notional filter under its older name only.
FilterStepOldNameOnly(acc, f) ==
    LET lot == IF f.filterType = "LOT_SIZE"
               THEN [acc EXCEPT !.step_size = <<f.stepSize>>,
                                !.min_qty = <<f.minQty>>]
               ELSE acc
    IN  IF f.filterType = "MIN_NOTIONAL" /\ f.hasMinNotional
        THEN [lot EXCEPT !.min_notional = <<f.minNotional>>]
        ELSE lot

\* One pass of the loop body over a filter record f.
FilterStep(acc, f) ==
    LET lot == IF f.filterType = "LOT_SIZE"
               THEN [acc EXCEPT !.step_size = <<f.stepSize>>,
                                !.min_qty = <<f.minQty>>]
               ELSE acc
    IN  IF f.filterType \in {"MIN_NOTIONAL", "NOTIONAL"} /\ f.hasMinNotional
        THEN [lot EXCEPT !.min_notional = <<f.minNotional>>]
        ELSE lot

RECURSIVE FilterLoop(_, _)
FilterLoop(acc, fs) ==
    IF fs = <<>> THEN acc ELSE FilterLoop(FilterStep(acc, Head(fs)), Tail(fs))

\* get_symbol_filters on an existing pair's info.
ParseFilters(info) == FilterLoop(NoFilters, info.filters)

(***************************************************************************)
(* The handler's exception translation.                                    *)
(***************************************************************************)
\* A translation whose catch-all clause also catches the HTTPException.
HandleExceptionCatchAll(e) ==
    IF e.type \in {"BinanceAPIException", "BinanceOrderException"}
    THEN HttpResponse(HTTPException(400, <<"Binance Error: ">> \o e.detail))
    ELSE HttpResponse(HTTPException(500, <<"Server error: ">> \o e.detail))

HandleException(e) ==
    IF e.type \in {"BinanceAPIException", "BinanceOrderException"}
    THEN HttpResponse(HTTPException(400, <<"Binance Error: ">> \o e.detail))
    ELSE IF e.type = "HTTPException"
    THEN HttpResponse(e)
    ELSE HttpResponse(HTTPException(500, <<"Server error: ">> \o e.detail))

(***************************************************************************)
(* Payloads.                                                               *)
(***************************************************************************)
ObjBody(token, message, action) ==
    [kind |-> "object", token |-> token, message |-> message, action |-> action]

\* A body that is not JSON at all, and a JSON body that is not an object.
InvalidBody == [kind |-> "invalid", token |-> JNull, message |-> JNull, action |-> JNull]

ListBody == [kind |-> "list", token |-> JNull, message |-> JNull, action |-> JNull]

NoBody == [kind |-> "none", token |-> JNull, message |-> JNull, action |-> JNull]

Secret == JStr(<<"k", "e", "y">>)

Tokens == {JNull, Secret, JStr(<<"x">>)}

Messages ==
    { JNull, JStr(<<>>), JStr(<<" ">>), JNum(0), JNum(5),
      JStr(<<" ", "B", "U", "Y", "\n">>), JStr(SELL),
      JStr(<<"h", "o", "l", "d">>) }

Actions == { JNull, JStr(<<"S", "e", "l", "l", " ">>), JStr(BUY) }

Bodies ==
    {InvalidBody, ListBody}
        \cup { ObjBody(t, m, a) : t \in Tokens, m \in Messages, a \in Actions }

\* The second request is a concurrent, well-formed signal.
BodiesOf(r) ==
    IF r = 1
    THEN Bodies
    ELSE { ObjBody(WEBHOOK_TOKEN, JStr(BUY), JNull),
           ObjBody(WEBHOOK_TOKEN, JNull, JStr(SELL)) }

(***************************************************************************)
(* Validation of the payload (webhook, up to the action check).            *)
(***************************************************************************)
\* An extraction that looks at the action field before the message field.
ActionFieldActionFirst(b) == PyOr(PyOr(b.action, b.message), JStr(<<>>))

\* body.get("message") or body.get("action") or ""
ActionField(b) == PyOr(PyOr(b.message, b.action), JStr(<<>>))

\* (...).strip().lower()
Normalize(s) == Lower(Strip(s))

\* A token check that lets a payload without a token through.
TokenMismatchUnlessAbsent(b, configured) ==
    Truthy(configured) /\ b.token # JNull /\ b.token # configured

\* `if WEBHOOK_TOKEN: if body.get("token") != WEBHOOK_TOKEN`
TokenMismatch(b, configured) == Truthy(configured) /\ b.token # configured

\* An action check that only refuses an empty text.
RecognizedIfNonEmpty(t) == t # <<>>

\* `text not in ("buy", "sell")`, negated.
Recognized(t) == t \in {BUY, SELL}

Rejected(response) == [ok |-> FALSE, text |-> <<>>, resp |-> response]

\* The outcome of lines 63-76 on body b: the response of a rejection, or the
\* normalised text of an accepted signal.
Validate(b, configured) ==
    IF b.kind = "invalid"
    THEN Rejected(HttpResponse(InvalidJson))
    ELSE IF Truthy(configured) /\ b.kind # "object"
    THEN Rejected(Unhandled(Exc("AttributeError", "no attribute 'get'")))
    ELSE IF TokenMismatch(b, configured)
    THEN Rejected(HttpResponse(InvalidToken))
    ELSE IF b.kind # "object"
    THEN Rejected(Unhandled(Exc("AttributeError", "no attribute 'get'")))
    ELSE IF ActionField(b).t # "str"
    THEN Rejected(Unhandled(Exc("AttributeError", "no attribute 'strip'")))
    ELSE IF ~Recognized(Normalize(ActionField(b).s))
    THEN [ok |-> FALSE, text |-> <<Normalize(ActionField(b).s)>>,
          resp |-> HttpResponse(UnrecognizedAction)]
    ELSE [ok |-> TRUE, text |-> <<Normalize(ActionField(b).s)>>, resp |-> Pending]

(***************************************************************************)
(* Order sizing.                                                           *)
(***************************************************************************)
NoExc == [type |-> "none", status |-> 0, detail |-> <<>>]

\* A sizing that spends 49% of the balance.
QuoteQtyHalf(usdc_free) == Truncate(usdc_free * 49, 4, 2)

\* quote_qty = truncate(usdc_free * 0.98, 2): the product of a balance in cents
\* and 0.98 is a number of units of 10^-4.
QuoteQty(usdc_free) == Truncate(usdc_free * 98, 4, 2)

\* Balance checks whose hard floor refuses a spend of exactly 5.
BuyChecksExclusiveFloor(quote_qty, min_notional) ==
    IF min_notional # <<>> /\ quote_qty < min_notional[1]
    THEN BelowMinNotional
    ELSE IF quote_qty <= 500
    THEN BelowFloor
    ELSE NoExc

\* The two balance checks of the buy branch: the exception raised, or NoExc.
BuyChecks(quote_qty, min_notional) ==
    IF min_notional # <<>> /\ quote_qty < min_notional[1]
    THEN BelowMinNotional
    ELSE IF quote_qty < 500
    THEN BelowFloor
    ELSE NoExc

\* `if step_size is None or min_qty is None`
LotSizeMissing(f) == f.step_size = <<>> \/ f.min_qty = <<>>

\* qty after round_step_size and the re-rounding to the step's decimals.
SellQty(raw_qty, step_size, scale) ==
    Round(RoundStepSize(raw_qty, step_size), scale, Decimals(step_size, scale))

\* The quantity check of the sell branch.
SellChecks(qty, min_qty) ==
    IF qty < min_qty
    THEN BelowMinQty
    ELSE NoExc

(***************************************************************************)
(* The exchange: pair metadata, account balances, order matching.          *)
(***************************************************************************)
LotSize(step, min) ==
    [filterType |-> "LOT_SIZE", stepSize |-> step, minQty |-> min,
     hasMinNotional |-> FALSE, minNotional |-> 0]

\* A notional filter under either of its names, with or without the
\* minNotional field.
Notional(type, has, min) ==
    [filterType |-> type, stepSize |-> 0, minQty |-> 0,
     hasMinNotional |-> has, minNotional |-> min]

PriceFilter == Notional("PRICE_FILTER", TRUE, 1)

Market(scale, grain, fs) ==
    [exists |-> TRUE, scale |-> scale, grain |-> grain, filters |-> fs]

\* get_symbol_info answers None.
NoMarket == [exists |-> FALSE, scale |-> 0, grain |-> 0, filters |-> <<>>]

\* Markets that differ in the notional rule (step 0.01, minQty 0.01).
BuyMarkets ==
    { Market(5, 61728, <<PriceFilter, LotSize(1000, 1000)>> \o n) :
        n \in { <<>>,
                <<Notional("MIN_NOTIONAL", TRUE, 497)>>,
                <<Notional("NOTIONAL", TRUE, 501)>>,
                <<Notional("NOTIONAL", FALSE, 0)>> } }

\* Markets that differ in the lot-size rule: none; step 0.01; step 0.001 with
\* minQty 0.01; step 0.00000000016; step 0; step 0.25.
SellMarkets ==
    { Market(5, 61728, <<Notional("NOTIONAL", TRUE, 500)>>),
      Market(5, 61728, <<LotSize(1000, 1000), Notional("NOTIONAL", TRUE, 500)>>),
      Market(5, 450, <<Notional("MIN_NOTIONAL", TRUE, 500), LotSize(100, 1000)>>),
      Market(11, 17, <<LotSize(16, 10)>>),
      Market(5, 450, <<LotSize(0, 1000)>>),
      Market(3, 130, <<LotSize(250, 250)>>) }

\* Markets that differ in the shape of the filter list: no filter; no known
\* filter; the notional rule under both names, the field in one of them only,
\* before and after the record without it.
FilterMarkets ==
    { Market(5, 61728, <<>>),
      Market(5, 61728, <<PriceFilter>>),
      Market(5, 61728, <<Notional("NOTIONAL", FALSE, 0),
                         Notional("MIN_NOTIONAL", TRUE, 500),
                         LotSize(1000, 1000)>>),
      Market(5, 61728, <<Notional("MIN_NOTIONAL", TRUE, 500),
                         Notional("NOTIONAL", FALSE, 0)>>) }

QuoteBalances == {400, 10000} \cup ((MaxQuoteCents - 6)..MaxQuoteCents)

BaseBalances(m) == { k * m.grain : k \in 0..MaxBaseGrains }

Scenarios ==
    { [market |-> m, quote |-> q, base |-> 2 * m.grain] :
        m \in BuyMarkets, q \in QuoteBalances }
    \cup { [market |-> sc[1], quote |-> 10000, base |-> sc[2]] :
        sc \in UNION { {m} \X BaseBalances(m) : m \in SellMarkets } }
    \cup { [market |-> m, quote |-> 10000, base |-> 2 * m.grain] :
        m \in FilterMarkets }
    \cup { [market |-> NoMarket, quote |-> 10000, base |-> 0] }

\* WEBHOOK_TOKEN unset, set to the empty string, set to a secret.
ConfiguredTokens == {JNull, JStr(<<>>), Secret}

\* How a balance query may end: the balance, None, or an exchange error.
BalanceOutcomes == {"ok", "none", "raise"}

\* How the exchange may treat an order it could fill: fill it, or fail.
OrderOutcomes == {"fill", "raise"}

\* The step of the pair's LOT_SIZE rule as the exchange enforces it (0: none).
ExchangeStep ==
    IF market.exists /\ ParseFilters(market).step_size # <<>>
    THEN ParseFilters(market).step_size[1]
    ELSE 0

\* The exchange's answer to an order: NoExc when it fills.
ExchangeVerdict(order, o) ==
    IF o = "raise"
    THEN Exc("BinanceOrderException", "order failed")
    ELSE IF order.side = "BUY" /\ order.amount > quoteFree
    THEN Exc("BinanceAPIException", "insufficient balance")
    ELSE IF order.side = "SELL" /\ order.amount > baseFree
    THEN Exc("BinanceAPIException", "insufficient balance")
    ELSE IF order.side = "SELL" /\ ExchangeStep > 0 /\ order.amount % ExchangeStep # 0
    THEN Exc("BinanceAPIException", "Filter failure: LOT_SIZE")
    ELSE NoExc

(***************************************************************************)
(* The state after start-up.                                               *)
(***************************************************************************)
Init ==
    /\ WEBHOOK_TOKEN \in ConfiguredTokens
    /\ \E sc \in Scenarios :
          /\ market = sc.market
          /\ quoteFree = sc.quote
          /\ baseFree = sc.base
    /\ pc = [r \in Reqs |-> "idle"]
    /\ body = [r \in Reqs |-> NoBody]
    /\ text = [r \in Reqs |-> <<>>]
    /\ filters = [r \in Reqs |-> NoFilters]
    /\ free = [r \in Reqs |-> <<>>]
    /\ amount = [r \in Reqs |-> <<>>]
    /\ calls = [r \in Reqs |-> <<>>]
    /\ orders = [r \in Reqs |-> <<>>]
    /\ resp = [r \in Reqs |-> Pending]

(***************************************************************************)
(* The webhook handler, one action per stage.                              *)
(***************************************************************************)
\* An exchange call is logged with how it ended: "ok", "none" (it answered
\* None) or "raise", and with the message of the error it raised.
Call(r, name, result, msg) ==
    [calls EXCEPT ![r] = Append(@, [name |-> name, result |-> result, msg |-> msg])]

\* The result and message logged for a call that ended with exception e.
ResultOf(e) == IF e.type \in {"BinanceAPIException", "BinanceOrderException"}
               THEN "raise" ELSE "ok"

MsgOf(e) == IF e.type \in {"BinanceAPIException", "BinanceOrderException"}
            THEN e.detail[1] ELSE ""

\* Lines 62-76: parse the body, check the token, extract the action.
Webhook(r) ==
    /\ pc[r] = "idle"
    /\ \E b \in BodiesOf(r) :
          LET v == Validate(b, WEBHOOK_TOKEN)
          IN  /\ body' = [body EXCEPT ![r] = b]
              /\ text' = [text EXCEPT ![r] = v.text]
              /\ resp' = [resp EXCEPT ![r] = v.resp]
              /\ pc' = [pc EXCEPT ![r] = IF v.ok THEN "filters" ELSE "done"]
    /\ UNCHANGED <<WEBHOOK_TOKEN, market, quoteFree, baseFree, filters, free,
                   amount, calls, orders>>

\* A resolver that takes a missing pair for a pair without filters.
SymbolFiltersUnchecked(info) == [exc |-> NoExc, filters |-> ParseFilters(info)]

\* get_symbol_filters(SYMBOL) when get_symbol_info answers: the resolved
\* filters, or the HTTPException for an unknown pair.
SymbolFilters(info) ==
    IF ~info.exists
    THEN [exc |-> SymbolNotFound,
          filters |-> NoFilters]
    ELSE [exc |-> NoExc, filters |-> ParseFilters(info)]

\* Line 78: the pair-metadata query, made outside the try block.
GetSymbolFilters(r) ==
    /\ pc[r] = "filters"
    /\ \E o \in {"ok", "raise"} :
          LET got == SymbolFilters(market)
          IN  /\ calls' = Call(r, "get_symbol_info",
                               IF o = "raise" THEN "raise"
                               ELSE IF market.exists THEN "ok" ELSE "none",
                               IF o = "raise" THEN "APIError" ELSE "")
              /\ IF o = "raise"
                 THEN /\ resp' = [resp EXCEPT ![r] =
                                  Unhandled(Exc("BinanceAPIException", "APIError"))]
                      /\ pc' = [pc EXCEPT ![r] = "done"]
                      /\ UNCHANGED filters
                 ELSE IF got.exc # NoExc
                 THEN /\ resp' = [resp EXCEPT ![r] = HttpResponse(got.exc)]
                      /\ pc' = [pc EXCEPT ![r] = "done"]
                      /\ UNCHANGED filters
                 ELSE /\ filters' = [filters EXCEPT ![r] = got.filters]
                      /\ pc' = [pc EXCEPT ![r] = "sizing"]
                      /\ UNCHANGED resp
    /\ UNCHANGED <<WEBHOOK_TOKEN, market, quoteFree, baseFree, body, text, free,
                   amount, orders>>

\* A buy sizing that also demands the lot-size filter.
BuySizingNeedsLot(o, f) ==
    IF o = "raise"
    THEN [exc |-> Exc("BinanceAPIException", "APIError"),
          free |-> <<>>, amount |-> <<>>]
    ELSE IF o = "none"
    THEN [exc |-> Exc("TypeError", "'NoneType' object is not subscriptable"),
          free |-> <<>>, amount |-> <<>>]
    ELSE IF LotSizeMissing(f)
    THEN [exc |-> NoLotSize, free |-> <<quoteFree>>, amount |-> <<>>]
    ELSE [exc |-> BuyChecks(QuoteQty(quoteFree), f.min_notional),
          free |-> <<quoteFree>>, amount |-> <<QuoteQty(quoteFree)>>]

\* Lines 83-95 for a balance query ending as o: what was read, what was
\* computed, and the exception raised (NoExc: go on to the order).
BuySizing(o, f) ==
    IF o = "raise"
    THEN [exc |-> Exc("BinanceAPIException", "APIError"),
          free |-> <<>>, amount |-> <<>>]
    ELSE IF o = "none"
    THEN [exc |-> Exc("TypeError", "'NoneType' object is not subscriptable"),
          free |-> <<>>, amount |-> <<>>]
    ELSE [exc |-> BuyChecks(QuoteQty(quoteFree), f.min_notional),
          free |-> <<quoteFree>>, amount |-> <<QuoteQty(quoteFree)>>]

\* A buy branch that submits the order first and checks the minimums after.
BuySizeOrderFirst(r) ==
    /\ pc[r] = "sizing"
    /\ text[r] = <<BUY>>
    /\ \E o \in BalanceOutcomes :
          LET got == BuySizing(o, filters[r])
              order == [side |-> "BUY", type |-> "MARKET",
                        sizing |-> "quoteOrderQty", amount |-> QuoteQty(quoteFree)]
          IN  /\ free' = [free EXCEPT ![r] = got.free]
              /\ amount' = [amount EXCEPT ![r] = got.amount]
              /\ pc' = [pc EXCEPT ![r] = "done"]
              /\ IF o = "ok"
                 THEN /\ orders' = [orders EXCEPT ![r] = Append(@, order)]
                      /\ calls' = [calls EXCEPT ![r] = @ \o
                            << [name |-> "get_asset_balance", result |-> o, msg |-> ""],
                               [name |-> "create_order", result |-> "ok", msg |-> ""] >>]
                      /\ resp' = [resp EXCEPT ![r] =
                            IF got.exc = NoExc
                            THEN [status |-> 200, detail |-> <<"ok", "buy", "BUY">>]
                            ELSE HandleException(got.exc)]
                 ELSE /\ UNCHANGED orders
                      /\ calls' = Call(r, "get_asset_balance", o, MsgOf(got.exc))
                      /\ resp' = [resp EXCEPT ![r] = HandleException(got.exc)]
    /\ UNCHANGED <<WEBHOOK_TOKEN, market, quoteFree, baseFree, body, text, filters>>

\* Lines 81-95: read the quote balance, size the order, check the minimums.
BuySize(r) ==
    /\ pc[r] = "sizing"
    /\ text[r] = <<BUY>>
    /\ \E o \in BalanceOutcomes :
          LET got == BuySizing(o, filters[r])
          IN  /\ calls' = Call(r, "get_asset_balance", o, MsgOf(got.exc))
              /\ free' = [free EXCEPT ![r] = got.free]
              /\ amount' = [amount EXCEPT ![r] = got.amount]
              /\ IF got.exc = NoExc
                 THEN /\ pc' = [pc EXCEPT ![r] = "order"]
                      /\ UNCHANGED resp
                 ELSE /\ pc' = [pc EXCEPT ![r] = "done"]
                      /\ resp' = [resp EXCEPT ![r] = HandleException(got.exc)]
    /\ UNCHANGED <<WEBHOOK_TOKEN, market, quoteFree, baseFree, body, text,
                   filters, orders>>

\* Lines 131-139: the success summary.
Summary(action, order) ==
    [status |-> 200,
     detail |-> <<"ok", IF action = BUY THEN "buy" ELSE "sell", order.side>>]

\* A buy order sized like a sell order.
BuyOrderByQuantity(quote_qty) ==
    [side |-> "BUY", type |-> "MARKET", sizing |-> "quantity",
     amount |-> quote_qty]

\* client.create_order(side=SIDE_BUY, type=MARKET, quoteOrderQty=quote_qty)
BuyOrderRequest(quote_qty) ==
    [side |-> "BUY", type |-> "MARKET", sizing |-> "quoteOrderQty",
     amount |-> quote_qty]

\* client.create_order(side=SIDE_SELL, type=MARKET, quantity=qty)
SellOrderRequest(qty) ==
    [side |-> "SELL", type |-> "MARKET", sizing |-> "quantity", amount |-> qty]

\* A buy branch that submits the order a second time when the exchange refused
\* the first submission.
BuyOrderRetry(r) ==
    /\ pc[r] = "order"
    /\ text[r] = <<BUY>>
    /\ pc' = [pc EXCEPT ![r] = "done"]
    /\ \E o1, o2 \in OrderOutcomes :
          LET order == BuyOrderRequest(amount[r][1])
              first == ExchangeVerdict(order, o1)
              exc == IF first = NoExc THEN NoExc ELSE ExchangeVerdict(order, o2)
              entry(e) == [name |-> "create_order", result |-> ResultOf(e),
                           msg |-> MsgOf(e)]
          IN  /\ orders' = [orders EXCEPT ![r] =
                    IF first = NoExc THEN Append(@, order) ELSE @ \o <<order, order>>]
              /\ calls' = [calls EXCEPT ![r] =
                    IF first = NoExc THEN Append(@, entry(first))
                    ELSE @ \o <<entry(first), entry(exc)>>]
              /\ IF exc = NoExc
                 THEN /\ quoteFree' = quoteFree - order.amount
                      /\ resp' = [resp EXCEPT ![r] = Summary(text[r][1], order)]
                 ELSE /\ UNCHANGED quoteFree
                      /\ resp' = [resp EXCEPT ![r] = HandleException(exc)]
    /\ UNCHANGED <<WEBHOOK_TOKEN, market, baseFree, body, text, filters, free,
                   amount>>

\* Lines 97-102 and 131-147: submit the buy order and answer.
BuyOrder(r) ==
    /\ pc[r] = "order"
    /\ text[r] = <<BUY>>
    /\ orders' = [orders EXCEPT ![r] = Append(@, BuyOrderRequest(amount[r][1]))]
    /\ pc' = [pc EXCEPT ![r] = "done"]
    /\ \E o \in OrderOutcomes :
          LET order == BuyOrderRequest(amount[r][1])
              exc == ExchangeVerdict(order, o)
          IN  /\ calls' = Call(r, "create_order", ResultOf(exc), MsgOf(exc))
              /\ IF exc = NoExc
                 THEN /\ quoteFree' = quoteFree - order.amount
                      /\ resp' = [resp EXCEPT ![r] = Summary(text[r][1], order)]
                 ELSE /\ UNCHANGED quoteFree
                      /\ resp' = [resp EXCEPT ![r] = HandleException(exc)]
    /\ UNCHANGED <<WEBHOOK_TOKEN, market, baseFree, body, text, filters, free,
                   amount>>

\* Lines 108-121 for a balance query ending as o.
SellSizing(o, f) ==
    IF o = "raise"
    THEN [exc |-> Exc("BinanceAPIException", "APIError"),
          free |-> <<>>, amount |-> <<>>]
    ELSE IF o = "none"
    THEN [exc |-> Exc("TypeError", "'NoneType' object is not subscriptable"),
          free |-> <<>>, amount |-> <<>>]
    ELSE IF f.step_size[1] = 0
    THEN [exc |-> Exc("ZeroDivisionError", "float division by zero"),
          free |-> <<baseFree>>, amount |-> <<>>]
    ELSE LET qty == SellQty(baseFree, f.step_size[1], market.scale)
         IN  [exc |-> SellChecks(qty, f.min_qty[1]),
              free |-> <<baseFree>>, amount |-> <<qty>>]

\* A sell branch that reads the base balance first and looks for the lot-size
\* filter after.
SellSizeBalanceFirst(r) ==
    /\ pc[r] = "sizing"
    /\ text[r] = <<SELL>>
    /\ \E o \in BalanceOutcomes :
          LET got == IF o = "ok" /\ LotSizeMissing(filters[r])
                     THEN [exc |-> NoLotSize, free |-> <<baseFree>>, amount |-> <<>>]
                     ELSE SellSizing(o, filters[r])
          IN  /\ calls' = Call(r, "get_asset_balance", o, MsgOf(got.exc))
              /\ free' = [free EXCEPT ![r] = got.free]
              /\ amount' = [amount EXCEPT ![r] = got.amount]
              /\ IF got.exc = NoExc
                 THEN /\ pc' = [pc EXCEPT ![r] = "order"]
                      /\ UNCHANGED resp
                 ELSE /\ pc' = [pc EXCEPT ![r] = "done"]
                      /\ resp' = [resp EXCEPT ![r] = HandleException(got.exc)]
    /\ UNCHANGED <<WEBHOOK_TOKEN, market, quoteFree, baseFree, body, text,
                   filters, orders>>

\* Lines 104-121: require the lot-size filter, read the base balance, size the
\* order, check the minimum quantity.
SellSize(r) ==
    /\ pc[r] = "sizing"
    /\ text[r] = <<SELL>>
    /\ IF LotSizeMissing(filters[r])
       THEN /\ pc' = [pc EXCEPT ![r] = "done"]
            /\ resp' = [resp EXCEPT ![r] = HandleException(NoLotSize)]
            /\ UNCHANGED <<free, amount, calls>>
       ELSE /\ \E o \in BalanceOutcomes :
                  LET got == SellSizing(o, filters[r])
                  IN  /\ calls' = Call(r, "get_asset_balance", o, MsgOf(got.exc))
                      /\ free' = [free EXCEPT ![r] = got.free]
                      /\ amount' = [amount EXCEPT ![r] = got.amount]
                      /\ IF got.exc = NoExc
                         THEN /\ pc' = [pc EXCEPT ![r] = "order"]
                              /\ UNCHANGED resp
                         ELSE /\ pc' = [pc EXCEPT ![r] = "done"]
                              /\ resp' = [resp EXCEPT ![r] = HandleException(got.exc)]
    /\ UNCHANGED <<WEBHOOK_TOKEN, market, quoteFree, baseFree, body, text,
                   filters, orders>>

\* A sell branch that holds its order back until the account has the quantity.
SellOrderAwaitsFunds(r) ==
    /\ pc[r] = "order"
    /\ text[r] = <<SELL>>
    /\ amount[r][1] <= baseFree
    /\ orders' = [orders EXCEPT ![r] = Append(@, SellOrderRequest(amount[r][1]))]
    /\ pc' = [pc EXCEPT ![r] = "done"]
    /\ \E o \in OrderOutcomes :
          LET order == SellOrderRequest(amount[r][1])
              exc == ExchangeVerdict(order, o)
          IN  /\ calls' = Call(r, "create_order", ResultOf(exc), MsgOf(exc))
              /\ IF exc = NoExc
                 THEN /\ baseFree' = baseFree - order.amount
                      /\ resp' = [resp EXCEPT ![r] = Summary(text[r][1], order)]
                 ELSE /\ UNCHANGED baseFree
                      /\ resp' = [resp EXCEPT ![r] = HandleException(exc)]
    /\ UNCHANGED <<WEBHOOK_TOKEN, market, quoteFree, body, text, filters, free,
                   amount>>

\* Lines 123-128 and 131-147: submit the sell order and answer.
SellOrder(r) ==
    /\ pc[r] = "order"
    /\ text[r] = <<SELL>>
    /\ orders' = [orders EXCEPT ![r] = Append(@, SellOrderRequest(amount[r][1]))]
    /\ pc' = [pc EXCEPT ![r] = "done"]
    /\ \E o \in OrderOutcomes :
          LET order == SellOrderRequest(amount[r][1])
              exc == ExchangeVerdict(order, o)
          IN  /\ calls' = Call(r, "create_order", ResultOf(exc), MsgOf(exc))
              /\ IF exc = NoExc
                 THEN /\ baseFree' = baseFree - order.amount
                      /\ resp' = [resp EXCEPT ![r] = Summary(text[r][1], order)]
                 ELSE /\ UNCHANGED baseFree
                      /\ resp' = [resp EXCEPT ![r] = HandleException(exc)]
    /\ UNCHANGED <<WEBHOOK_TOKEN, market, quoteFree, body, text, filters, free,
                   amount>>

Next ==
    \E r \in Reqs :
        \/ Webhook(r)
        \/ GetSymbolFilters(r)
        \/ BuySize(r)
        \/ BuyOrder(r)
        \/ SellSize(r)
        \/ SellOrder(r)

Spec == Init /\ [][Next]_vars

\* The initial states with the token configured and one market of each kind:
\* a notional rule with a balance below and above it, no lot-size rule, a
\* step of 0, a step of 0.25, and no market.
FairInit ==
    /\ Init
    /\ WEBHOOK_TOKEN = Secret
    /\ \/ /\ market = Market(5, 61728, <<PriceFilter, LotSize(1000, 1000),
                                         Notional("NOTIONAL", TRUE, 501)>>)
          /\ quoteFree \in {400, MaxQuoteCents}
       \/ /\ market \in { Market(5, 61728, <<Notional("NOTIONAL", TRUE, 500)>>),
                          Market(5, 450, <<LotSize(0, 1000)>>),
                          Market(3, 130, <<LotSize(250, 250)>>),
                          NoMarket }
          /\ baseFree \in {0, 2 * market.grain}

\* The steps of request r after its validation: each is one blocking exchange
\* call and the code that follows it up to the next call or the response.
Handle(r) ==
    \/ GetSymbolFilters(r)
    \/ BuySize(r)
    \/ BuyOrder(r)
    \/ SellSize(r)
    \/ SellOrder(r)

\* Every exchange call eventually returns or raises, and the handler then runs
\* on: a request inside the handler is not left waiting forever.
FairSpec == FairInit /\ [][Next]_vars /\ \A r \in Reqs : WF_vars(Handle(r))

(***************************************************************************)
(* Properties.                                                             *)
(***************************************************************************)
Done(r) == pc[r] = "done"

CallNames(r) == { calls[r][i].name : i \in DOMAIN calls[r] }

CallCount(r, name) == Cardinality({ i \in DOMAIN calls[r] : calls[r][i].name = name })

\* The responses of the handler's own rejections.
Rejections ==
    { HttpResponse(e) : e \in { InvalidJson, InvalidToken, UnrecognizedAction,
                                SymbolNotFound, NoLotSize, BelowMinNotional,
                                BelowFloor, BelowMinQty } }

\* C1: a request that ends in a rejection (invalid JSON, token mismatch,
\* unrecognized action, unknown pair, missing lot-size filter, insufficient
\* balance, insufficient quantity) has made no create_order call: the log of
\* its exchange calls, which only grows, holds none and it handed over no order.
C1_NoOrderBeforeRejection ==
    \A r \in Reqs :
        Done(r) /\ resp[r] \in Rejections
            => orders[r] = <<>> /\ "create_order" \notin CallNames(r)

\* A sell request rejected for insufficient quantity, after both queries.
C1_Witness ==
    \E r \in Reqs :
        /\ Done(r)
        /\ resp[r] = HttpResponse(BelowMinQty)
        /\ Len(calls[r]) = 2

\* C2: with a token configured, an object payload whose token is absent or
\* differs is answered 401 and has made no exchange call of any kind,
\* whatever its message and action fields hold.
C2_UnauthorizedBeforeExchange ==
    \A r \in Reqs :
        /\ pc[r] # "idle"
        /\ body[r].kind = "object"
        /\ Truthy(WEBHOOK_TOKEN)
        /\ body[r].token # WEBHOOK_TOKEN
        => /\ Done(r)
           /\ resp[r] = HttpResponse(InvalidToken)
           /\ calls[r] = <<>>
           /\ orders[r] = <<>>

\* A payload without a token, carrying a valid buy signal, under a configured
\* token, once handled.
C2_Witness ==
    \E r \in Reqs :
        /\ Done(r)
        /\ Truthy(WEBHOOK_TOKEN)
        /\ body[r].kind = "object"
        /\ body[r].token = JNull
        /\ Truthy(body[r].message)
        /\ body[r].message.t = "str"
        /\ Normalize(body[r].message.s) = BUY

\* C3: a request whose normalised action text is anything but "buy" or
\* "sell" is rejected with the unrecognized-action error and has made no
\* exchange call of any kind.
C3_UnrecognizedAction ==
    \A r \in Reqs :
        text[r] # <<>> /\ text[r][1] \notin {BUY, SELL}
            => /\ Done(r)
               /\ resp[r] = HttpResponse(UnrecognizedAction)
               /\ calls[r] = <<>>
               /\ orders[r] = <<>>

\* A request that said "hold", rejected for its action.
C3_Witness ==
    \E r \in Reqs :
        /\ Done(r)
        /\ text[r] = << <<"h", "o", "l", "d">> >>
        /\ resp[r] = HttpResponse(UnrecognizedAction)

\* C4: a request submits at most one order (none again after an exchange
\* failure), and a request answered with the success summary has submitted
\* exactly one market order, with the side of its action, a buy sized by
\* quoteOrderQty and a sell by quantity.
C4_AtMostOneOrder ==
    \A r \in Reqs :
        /\ Len(orders[r]) <= 1
        /\ CallCount(r, "create_order") = Len(orders[r])
        /\ resp[r].status = 200 =>
              /\ Len(orders[r]) = 1
              /\ orders[r][1].type = "MARKET"
              /\ \/ /\ text[r] = <<BUY>>
                    /\ orders[r][1].side = "BUY"
                    /\ orders[r][1].sizing = "quoteOrderQty"
                 \/ /\ text[r] = <<SELL>>
                    /\ orders[r][1].side = "SELL"
                    /\ orders[r][1].sizing = "quantity"

\* One request bought and got the success summary; another submitted its one
\* sell order, which the exchange failed, and was answered 400.
C4_Witness ==
    \E r, q \in Reqs :
        /\ resp[r].status = 200 /\ text[r] = <<BUY>>
        /\ Done(q) /\ text[q] = <<SELL>> /\ Len(orders[q]) = 1
        /\ resp[q].status = 400

\* floor(B * 0.98 * 100) / 100 for a balance B in whole cents, in cents.
Spend(B) == (B * 98) \div 100

\* C5: for a buy signal that read the free quote balance B, an order is
\* submitted if and only if spend = floor(B * 0.98 * 100) / 100 is at least 5
\* and, when minNotional is known, at least minNotional; the order's amount is
\* spend, which is no more than B; otherwise the request is rejected with the
\* insufficient-balance error.
C5_BuySizing ==
    \A r \in Reqs :
        text[r] = <<BUY>> /\ free[r] # <<>> =>
            LET B == free[r][1]
                mn == filters[r].min_notional
            IN  IF Spend(B) >= 500 /\ (mn = <<>> \/ Spend(B) >= mn[1])
                THEN /\ pc[r] \in {"order", "done"}
                     /\ resp[r] \notin Rejections
                     /\ Done(r) =>
                           /\ Len(orders[r]) = 1
                           /\ orders[r][1].amount = Spend(B)
                           /\ orders[r][1].amount <= B
                ELSE /\ Done(r)
                     /\ orders[r] = <<>>
                     /\ resp[r] \in { HttpResponse(BelowMinNotional),
                                      HttpResponse(BelowFloor) }

\* A buy submitted with its spend exactly at the known minNotional.
C5_Witness ==
    \E r \in Reqs :
        /\ text[r] = <<BUY>>
        /\ filters[r].min_notional = <<501>>
        /\ free[r] = <<512>>
        /\ Len(orders[r]) = 1

\* C6: for a sell signal with a known stepSize > 0 and minQuantity that read
\* the free base balance Q, an order is submitted if and only if the final
\* quantity (floor(Q / stepSize) * stepSize, re-rounded to the step's decimal
\* places) is at least minQuantity; a submitted quantity is an integer
\* multiple of stepSize and at least minQuantity; otherwise the request is
\* rejected with the insufficient-quantity error.
C6_SellSizing ==
    \A r \in Reqs :
        /\ text[r] = <<SELL>>
        /\ free[r] # <<>>
        /\ ~LotSizeMissing(filters[r])
        /\ filters[r].step_size[1] > 0
        => LET Q == free[r][1]
               step == filters[r].step_size[1]
               final == Round((Q \div step) * step, market.scale,
                              Decimals(step, market.scale))
           IN  IF final >= filters[r].min_qty[1]
               THEN /\ pc[r] \in {"order", "done"}
                    /\ resp[r] \notin Rejections
                    /\ Done(r) =>
                          /\ Len(orders[r]) = 1
                          /\ orders[r][1].amount = final
                          /\ orders[r][1].amount % step = 0
                          /\ orders[r][1].amount >= filters[r].min_qty[1]
               ELSE /\ Done(r)
                    /\ orders[r] = <<>>
                    /\ resp[r] = HttpResponse(BelowMinQty)

\* C7: two concurrent buy requests that both read the same free quote balance
\* B and both submitted an order each submitted truncate(B * 0.98, 2), and the
\* two amounts together exceed B.
C7_ConcurrentBuysOverspend ==
    \A r, q \in Reqs :
        /\ r # q
        /\ text[r] = <<BUY>> /\ text[q] = <<BUY>>
        /\ orders[r] # <<>> /\ orders[q] # <<>>
        /\ free[r] = free[q]
        => /\ orders[r][1].amount = Spend(free[r][1])
           /\ orders[q][1].amount = Spend(free[q][1])
           /\ orders[r][1].amount + orders[q][1].amount > free[r][1]

\* The interleaving: q read the balance B that r read, r's order was filled
\* and took its amount from the account, and q's order of the same amount
\* then met an account that no longer held it.  q read B before r's order
\* landed, so both read B before either order was submitted.
C7_Witness ==
    \E r, q \in Reqs :
        /\ r # q
        /\ text[r] = <<BUY>> /\ text[q] = <<BUY>>
        /\ free[r] # <<>> /\ free[r] = free[q]
        /\ resp[r].status = 200
        /\ resp[q] = [status |-> 400,
                      detail |-> <<"Binance Error: ", "insufficient balance">>]
        /\ orders[r][1].amount = orders[q][1].amount
        /\ quoteFree = free[r][1] - orders[r][1].amount

LastCall(r) == calls[r][Len(calls[r])]

\* After the balance query or the order submission: an exchange error is
\* answered 400 with the exchange's message, a balance answered None or a
\* division by a zero step is answered with the generic 500, and a rejection
\* of the sizing checks is answered as raised.
ErrorsTranslated ==
    \A r \in Reqs :
        Done(r) /\ calls[r] # <<>> /\ LastCall(r).name # "get_symbol_info" =>
            LET last == LastCall(r)
                sized == last.name = "get_asset_balance" /\ last.result = "ok"
                zeroStep == text[r] = <<SELL>> /\ filters[r].step_size = <<0>>
            IN  /\ last.result = "raise" =>
                      resp[r] = [status |-> 400,
                                 detail |-> <<"Binance Error: ", last.msg>>]
                /\ last.result = "none" \/ (sized /\ zeroStep) =>
                      /\ resp[r].status = 500
                      /\ resp[r].detail[1] = "Server error: "
                /\ sized /\ ~zeroStep =>
                      resp[r] \in { HttpResponse(BelowMinNotional),
                                    HttpResponse(BelowFloor),
                                    HttpResponse(BelowMinQty) }

\* A sell without a lot-size filter is answered with that rejection as raised.
LotSizeRejectionKept ==
    \A r \in Reqs :
        /\ Done(r)
        /\ text[r] = <<SELL>>
        /\ calls[r] # <<>>
        /\ LastCall(r).name = "get_symbol_info"
        /\ LastCall(r).result = "ok"
        => resp[r] = HttpResponse(NoLotSize)

\* C8: in the sizing and submission stage, an exchange error on the balance
\* read or on the order submission is answered 400 with the exchange's
\* message; any other unexpected failure is answered with the generic 500;
\* and a validation rejection raised there (missing lot size, insufficient
\* balance or quantity) keeps its own status and message.
C8_ErrorHandling == ErrorsTranslated /\ LotSizeRejectionKept

\* One request whose order the exchange failed, answered 400 with the
\* exchange's message, and one whose balance query answered None, answered 500.
C8_Witness ==
    \E r, q \in Reqs :
        /\ Done(r) /\ Len(calls[r]) = 3 /\ LastCall(r).result = "raise"
        /\ resp[r].status = 400
        /\ Done(q) /\ Len(calls[q]) = 2 /\ LastCall(q).result = "none"
        /\ resp[q].status = 500

\* A body that is not a valid structured payload: not JSON, JSON but not an
\* object, or an object whose action field is not text.
Malformed(b) ==
    \/ b.kind \in {"invalid", "list"}
    \/ b.kind = "object" /\ ActionField(b).t # "str"

\* C9: a request whose body is not a valid structured payload fails with the
\* client-facing 400, never with a server error, and makes no exchange call
\* (stated for the requests that the token check does not turn away).
C9_MalformedPayloadIs400 ==
    \A r \in Reqs :
        /\ Done(r)
        /\ Malformed(body[r])
        /\ ~(body[r].kind = "object" /\ TokenMismatch(body[r], WEBHOOK_TOKEN))
        => resp[r].status = 400 /\ calls[r] = <<>>

\* C10: when the metadata query answers that the pair does not exist, the
\* request fails with the unknown-pair error, a 400, and makes neither a
\* balance query nor an order submission, for a buy and for a sell.
C10_UnknownPair ==
    \A r \in Reqs :
        /\ calls[r] # <<>>
        /\ calls[r][1].name = "get_symbol_info"
        /\ calls[r][1].result # "raise"
        /\ ~market.exists
        => /\ Done(r)
           /\ resp[r] = HttpResponse(SymbolNotFound)
           /\ resp[r].status = 400
           /\ Len(calls[r]) = 1
           /\ orders[r] = <<>>

\* A buy and a sell, both turned away for the unknown pair.
C10_Witness ==
    \E r, q \in Reqs :
        /\ text[r] = <<BUY>> /\ resp[r] = HttpResponse(SymbolNotFound)
        /\ text[q] = <<SELL>> /\ resp[q] = HttpResponse(SymbolNotFound)
        /\ ~market.exists

\* C11: for a sell with a stepSize > 0 that read the free base balance Q and
\* computed a quantity, the quantity after re-rounding to the step's decimal
\* places is never greater than floor(Q / stepSize) * stepSize, and never
\* greater than Q.
C11_RoundingNeverIncreases ==
    \A r \in Reqs :
        /\ text[r] = <<SELL>>
        /\ free[r] # <<>>
        /\ amount[r] # <<>>
        /\ filters[r].step_size[1] > 0
        => /\ amount[r][1] <= RoundStepSize(free[r][1], filters[r].step_size[1])
           /\ amount[r][1] <= free[r][1]

\* C12: a sell for which the exchange reports stepSize 0, and whose balance
\* query answered, is rejected as invalid input (a 400) without the division
\* by the step being attempted, and submits no order.
C12_ZeroStepFailsFast ==
    \A r \in Reqs :
        /\ Done(r)
        /\ text[r] = <<SELL>>
        /\ filters[r].step_size = <<0>>
        /\ free[r] # <<>>
        => /\ resp[r].status = 400
           /\ resp[r] # HandleException(Exc("ZeroDivisionError",
                                           "float division by zero"))
           /\ orders[r] = <<>>

\* The names of the exchange calls request r has made, in order.
CallSeq(r) == [i \in DOMAIN calls[r] |-> calls[r][i].name]

\* The exchange calls of one request that runs to the order submission.
ExchangeCallOrder == <<"get_symbol_info", "get_asset_balance", "create_order">>

\* C13: the exchange calls a request has made are, in order, a prefix of
\* metadata query, balance query, order submission: each at most once, the
\* balance query never before the metadata query, the order submission never
\* before the balance query, and never more than three calls.
C13_ExchangeCallOrder ==
    \A r \in Reqs :
        /\ Len(calls[r]) <= Len(ExchangeCallOrder)
        /\ \A i \in 1..Len(calls[r]) : calls[r][i].name = ExchangeCallOrder[i]

\* A buy and a sell that both made the three calls.
C13_Witness ==
    \E r, q \in Reqs :
        /\ text[r] = <<BUY>> /\ CallSeq(r) = ExchangeCallOrder
        /\ text[q] = <<SELL>> /\ CallSeq(q) = ExchangeCallOrder

\* The metadata query of request r answered and the filters were resolved.
FiltersResolved(r) ==
    /\ calls[r] # <<>>
    /\ calls[r][1].name = "get_symbol_info"
    /\ calls[r][1].result = "ok"

\* C14: a sell whose resolved filters lack stepSize or minQuantity makes no
\* balance query and no order submission and ends with the
\* missing-lot-size-filter error; a buy with the same filters is never
\* answered with that error.
C14_MissingLotSize ==
    \A r \in Reqs :
        FiltersResolved(r) /\ LotSizeMissing(filters[r])
        => /\ text[r] = <<SELL>> =>
                /\ CallSeq(r) = <<"get_symbol_info">>
                /\ orders[r] = <<>>
                /\ Done(r) => resp[r] = HttpResponse(NoLotSize)
           /\ text[r] = <<BUY>> => resp[r] # HttpResponse(NoLotSize)

\* In a market without LOT_SIZE, a sell answered with the missing-lot-size
\* error and a buy whose order was filled.
C14_Witness ==
    \E r, q \in Reqs :
        /\ LotSizeMissing(filters[r]) /\ LotSizeMissing(filters[q])
        /\ text[r] = <<SELL>> /\ resp[r] = HttpResponse(NoLotSize)
        /\ text[q] = <<BUY>> /\ FiltersResolved(q) /\ resp[q].status = 200

\* C15: once the filters of an existing pair are resolved, stepSize is present
\* if and only if minQuantity is, and both if and only if the list has a
\* LOT_SIZE record; minNotional is present if and only if some MIN_NOTIONAL or
\* NOTIONAL record carries the minNotional field; and resolving the filters
\* never ends the request, whatever notional records lack the field.
C15_ResolvedFilters ==
    \A r \in Reqs :
        FiltersResolved(r)
        => LET f == filters[r]
               recs == market.filters
           IN  /\ f.step_size # <<>> <=> f.min_qty # <<>>
               /\ f.step_size # <<>> <=>
                     \E i \in DOMAIN recs : recs[i].filterType = "LOT_SIZE"
               /\ f.min_notional # <<>> <=>
                     \E i \in DOMAIN recs :
                        /\ recs[i].filterType \in {"MIN_NOTIONAL", "NOTIONAL"}
                        /\ recs[i].hasMinNotional
               /\ Len(calls[r]) = 1 =>
                     \/ pc[r] = "sizing"
                     \/ text[r] = <<SELL>> /\ resp[r] = HttpResponse(NoLotSize)

\* A filled buy in a market whose only notional record lacks the minNotional
\* field: minNotional stayed absent.
C15_Witness ==
    \E r \in Reqs :
        /\ FiltersResolved(r)
        /\ \E i \in DOMAIN market.filters :
              /\ market.filters[i].filterType = "NOTIONAL"
              /\ ~market.filters[i].hasMinNotional
        /\ filters[r].min_notional = <<>>
        /\ filters[r].step_size # <<>>
        /\ resp[r].status = 200

\* A field that is missing (or null) or the empty text.
MissingOrEmpty(v) == v \in {JNull, JStr(<<>>)}

\* The first non-empty field among message, action; the empty text if none.
FirstNonEmpty(b) ==
    IF ~MissingOrEmpty(b.message) THEN b.message
    ELSE IF ~MissingOrEmpty(b.action) THEN b.action
    ELSE JStr(<<>>)

\* Spellings of the two actions in other letter cases and with surrounding
\* whitespace, next to the plain ones.
BuySpellings == { BUY, <<" ", "B", "U", "Y", "\n">> }

SellSpellings == { SELL, <<"S", "e", "l", "l", " ">> }

\* C16: for an object payload that passed the token check and whose message
\* and action fields are each text or absent, the action is read from the
\* first non-empty of message, action: any spelling of "buy" (of "sell") in
\* that field is handled as the plain "buy" ("sell") and goes on to the
\* exchange, anything else there is answered as an unrecognized action, and
\* the action field counts only when message is missing or empty.
C16_ActionExtraction ==
    \A r \in Reqs :
        /\ pc[r] # "idle"
        /\ body[r].kind = "object"
        /\ ~TokenMismatch(body[r], WEBHOOK_TOKEN)
        /\ body[r].message.t # "num"
        /\ body[r].action.t # "num"
        => LET chosen == FirstNonEmpty(body[r]).s
               plain == IF chosen \in BuySpellings THEN BUY ELSE SELL
           IN  IF chosen \in BuySpellings \cup SellSpellings
               THEN /\ text[r] = <<plain>>
                    /\ resp[r] # HttpResponse(UnrecognizedAction)
                    /\ pc[r] = "filters" \/ calls[r] # <<>>
               ELSE /\ Done(r)
                    /\ resp[r] = HttpResponse(UnrecognizedAction)
                    /\ calls[r] = <<>>

\* A sell filled on the action field "Sell " under an empty message, and the
\* same run's other request filled on a plain "buy".
C16_Witness ==
    \E r, q \in Reqs :
        /\ body[r].message = JStr(<<>>)
        /\ body[r].action = JStr(<<"S", "e", "l", "l", " ">>)
        /\ text[r] = <<SELL>> /\ resp[r].status = 200
        /\ body[q].message = JStr(BUY)
        /\ text[q] = <<BUY>> /\ resp[q].status = 200

\* Lot-size filters other than the market's own: absent, step 0, other steps.
LotVariants ==
    { [step_size |-> <<>>, min_qty |-> <<>>],
      [step_size |-> <<0>>, min_qty |-> <<1000>>],
      [step_size |-> <<16>>, min_qty |-> <<10>>],
      [step_size |-> <<1000>>, min_qty |-> <<100000>>] }

\* minNotional values other than the market's own: absent, tiny, huge.
NotionalVariants == { <<>>, <<1>>, <<501>>, <<1000000>> }

\* C17: a buy about to be sized comes out the same under any other lot-size
\* filter, and a buy is never answered with a lot-size or minimum-quantity
\* error: it goes on to the order exactly when its spend passes minNotional
\* and the floor of 5. A sell about to be sized comes out the same under any
\* other minNotional, and a sell is never answered with a minNotional or
\* floor-of-5 error: its quantity is the stepped, re-rounded balance and it
\* goes on to the order exactly when that quantity reaches minQty.
C17_OwnFiltersOnly ==
    \A r \in Reqs :
        FiltersResolved(r)
        => LET f == filters[r]
           IN  /\ text[r] = <<BUY>> =>
                    /\ pc[r] = "sizing" =>
                          \A L \in LotVariants, o \in BalanceOutcomes :
                             BuySizing(o, [f EXCEPT !.step_size = L.step_size,
                                                    !.min_qty = L.min_qty])
                                 = BuySizing(o, f)
                    /\ resp[r] \notin { HttpResponse(NoLotSize),
                                        HttpResponse(BelowMinQty) }
                    /\ free[r] # <<>> =>
                          (resp[r] \notin Rejections <=>
                              BuyChecks(QuoteQty(free[r][1]), f.min_notional) = NoExc)
               /\ text[r] = <<SELL>> =>
                    /\ pc[r] = "sizing" /\ ~LotSizeMissing(f) =>
                          \A mn \in NotionalVariants, o \in BalanceOutcomes :
                             SellSizing(o, [f EXCEPT !.min_notional = mn])
                                 = SellSizing(o, f)
                    /\ resp[r] \notin { HttpResponse(BelowMinNotional),
                                        HttpResponse(BelowFloor) }
                    /\ amount[r] # <<>> =>
                          /\ amount[r][1] =
                                SellQty(free[r][1], f.step_size[1], market.scale)
                          /\ resp[r] \notin Rejections <=> amount[r][1] >= f.min_qty[1]
                          /\ orders[r] # <<>> => orders[r][1].amount = amount[r][1]

\* A buy filled in the market whose step is 0, where the sell of the same run
\* ended in the division error; the buy never looked at the step.
C17_Witness ==
    \E r, q \in Reqs :
        /\ text[r] = <<BUY>> /\ filters[r].step_size = <<0>>
        /\ resp[r].status = 200
        /\ text[q] = <<SELL>> /\ filters[q].step_size = <<0>>
        /\ Done(q) /\ free[q] # <<>> /\ orders[q] = <<>>

\* The statuses of the handler's responses: the success summary and the errors.
Outcomes == {200, 400, 401, 500}

\* C18: given that every exchange call eventually returns or raises, every
\* request that entered the handler eventually ends; a request has a response
\* exactly when it has ended, the response is the success summary or one
\* error, and once given it never changes.
C18_EveryRequestEnds ==
    /\ \A r \in Reqs : (pc[r] # "idle") ~> Done(r)
    /\ [](\A r \in Reqs :
            /\ Done(r) <=> resp[r] # Pending
            /\ Done(r) => resp[r].status \in Outcomes)
    /\ [][\A r \in Reqs : Done(r) => Done(r)' /\ resp'[r] = resp[r]]_vars

\* Both requests ended, one with the success summary after its order, one with
\* an error after its balance query raised.
C18_Witness ==
    \E r, q \in Reqs :
        /\ Done(r) /\ resp[r].status = 200 /\ Len(calls[r]) = 3
        /\ Done(q) /\ resp[q].status = 400 /\ Len(calls[q]) = 2
        /\ LastCall(q).result = "raise"

====
